---- MODULE Spec2Model ----
(***************************************************************************)
(* Model of src/main.rs: the ModuleFile visitor (enter_node), the          *)
(* recursive Project::traverse and main.                                   *)
(***************************************************************************)
EXTENDS Integers, Sequences, FiniteSets, TLC

VARIABLES
    fs,          \* the backing file system: path string -> file
    entries,     \* the Vec<String> handed to the top-level traverse
    project,     \* Project { files }
    stack,       \* the nested traverse calls, outermost first
    stdout,      \* everything println! has written, in order
    pc,          \* "traverse", "returned", "done", "panicked"
    panic,       \* why the process died ("" while it has not)
    analysed,    \* the paths read and visited so far, in order
    run,         \* which run of the Builder this is (SpecTwice)
    first,       \* how the first run ended and its Project (SpecTwice)
    program,     \* the node sequence handed to visit_program (SpecVisit)
    pos,         \* the number of nodes the visitor has entered (SpecVisit)
    ast_pass,    \* the ModuleFile being filled by the visitor (SpecVisit)
    vpc          \* "idle", "visit", "visited", "panicked" (SpecVisit)

vars == <<fs, entries, project, stack, stdout, pc, panic, analysed, run, first,
          program, pos, ast_pass, vpc>>

travVars == <<fs, entries, project, stack, stdout, pc, panic, analysed, run, first>>
visitVars == <<program, pos, ast_pass, vpc>>

----------------------------------------------------------------------------
(* Bounds *)

MaxImports == 3      \* import declarations in the whole file set
MaxEntries == 2      \* length of the entry list
MaxNodes == 4        \* nodes of a program handed to the visitor alone

----------------------------------------------------------------------------
(* Generic helpers *)

RECURSIVE SeqsUpTo(_, _)
SeqsUpTo(S, n) ==
    IF n = 0 THEN {<<>>}
    ELSE LET shorter == SeqsUpTo(S, n - 1)
         IN  shorter \cup {Append(s, x) : s \in {t \in shorter : Len(t) = n - 1}, x \in S}

Range(s) == {s[i] : i \in 1..Len(s)}

----------------------------------------------------------------------------
(* Data model: lines 8-26 *)

\* Option<String>
None == <<>>
Some(x) == <<x>>

ImportSpecifier(source_name, local_name) ==
    [source_name |-> source_name, local_name |-> local_name]

ImportItem(source, specifiers) ==
    [source |-> source, specifiers |-> specifiers]

\* ModuleFile { path, ..Default::default() }
ModuleFile(path) ==
    [path |-> path, imports |-> <<>>, exports |-> <<>>, default_export |-> None]

\* Project::default()
ProjectDefault == [files |-> <<>>]

----------------------------------------------------------------------------
(* Syntax-tree nodes, in the order Visit::visit_program enters them *)

Node(kind, source, imported, local) ==
    [kind |-> kind, source |-> source, imported |-> imported, local |-> local]

ImportDeclaration(source) == Node("ImportDeclaration", source, "", "")
NamedSpecifier(imported, local) == Node("ImportSpecifier", "", imported, local)
DefaultSpecifier(local) == Node("ImportDefaultSpecifier", "", "", local)
NamespaceSpecifier(local) == Node("ImportNamespaceSpecifier", "", "", local)
ExportNamed(name) == Node("ExportNamedDeclaration", "", "", name)
ExportDefault(name) == Node("ExportDefaultDeclaration", "", "", name)

SpecifierKinds ==
    {"ImportSpecifier", "ImportDefaultSpecifier", "ImportNamespaceSpecifier"}

\* A push that targets the first ImportItem of the file.
PushToFirst(imports, spec) ==
    [imports EXCEPT ![1] =
        ImportItem(@.source, Append(@.specifiers, spec))]

\* Vec::last_mut().unwrap() followed by specifiers.push(spec)
PushToLast(imports, spec) ==
    [imports EXCEPT ![Len(imports)] =
        ImportItem(@.source, Append(@.specifiers, spec))]

\* A push that opens no second record for a source the file already imports.
PushImportOnce(imports, from) ==
    IF \E k \in 1..Len(imports) : imports[k].source = from
    THEN imports
    ELSE Append(imports, ImportItem(from, <<>>))

\* self.imports.push(ImportItem { source: from.to_string(), specifiers: Vec::new() })
PushImport(imports, from) == Append(imports, ImportItem(from, <<>>))

\* A visitor that drops a specifier when the file has no ImportItem yet.
enter_node_lenient(self, kind) ==
    CASE kind.kind = "ImportDeclaration" ->
            [ok |-> TRUE,
             self |-> [self EXCEPT !.imports = PushImport(@, kind.source)]]
      [] kind.kind \in SpecifierKinds /\ self.imports = <<>> ->
            [ok |-> TRUE, self |-> self]
      [] kind.kind = "ImportSpecifier" /\ self.imports # <<>> ->
            [ok |-> TRUE,
             self |-> [self EXCEPT !.imports =
                 PushToLast(@, ImportSpecifier(kind.imported, kind.local))]]
      [] kind.kind = "ImportDefaultSpecifier" /\ self.imports # <<>> ->
            [ok |-> TRUE,
             self |-> [self EXCEPT !.imports =
                 PushToLast(@, ImportSpecifier("default", kind.local))]]
      [] kind.kind = "ImportNamespaceSpecifier" /\ self.imports # <<>> ->
            [ok |-> TRUE,
             self |-> [self EXCEPT !.imports =
                 PushToLast(@, ImportSpecifier("*", kind.local))]]
      [] OTHER -> [ok |-> TRUE, self |-> self]

\* enter_node: the result is the ModuleFile after the node, or a panic when
\* last_mut() is None.
enter_node(self, kind) ==
    CASE kind.kind = "ImportDeclaration" ->
            [ok |-> TRUE,
             self |-> [self EXCEPT !.imports = PushImport(@, kind.source)]]
      [] kind.kind = "ImportSpecifier" ->
            IF self.imports = <<>> THEN [ok |-> FALSE, self |-> self]
            ELSE [ok |-> TRUE,
                  self |-> [self EXCEPT !.imports =
                      PushToLast(@, ImportSpecifier(kind.imported, kind.local))]]
      [] kind.kind = "ImportDefaultSpecifier" ->
            IF self.imports = <<>> THEN [ok |-> FALSE, self |-> self]
            ELSE [ok |-> TRUE,
                  self |-> [self EXCEPT !.imports =
                      PushToLast(@, ImportSpecifier("default", kind.local))]]
      [] kind.kind = "ImportNamespaceSpecifier" ->
            IF self.imports = <<>> THEN [ok |-> FALSE, self |-> self]
            ELSE [ok |-> TRUE,
                  self |-> [self EXCEPT !.imports =
                      PushToLast(@, ImportSpecifier("*", kind.local))]]
      [] OTHER -> [ok |-> TRUE, self |-> self]

\* visit_program: enter every node in document order; a panic stops the walk.
RECURSIVE visit_program(_, _)
visit_program(self, nodes) ==
    IF nodes = <<>> THEN [ok |-> TRUE, self |-> self]
    ELSE LET r == enter_node(self, Head(nodes))
         IN  IF r.ok THEN visit_program(r.self, Tail(nodes)) ELSE r

----------------------------------------------------------------------------
(* The file system and the inputs of a run *)

Paths == {"test.ts", "a.ts", "b.ts", "lib"}

\* Path::extension
Extension(path) ==
    CASE path = "test.ts" -> "ts"
      [] path = "a.ts" -> "ts"
      [] path = "b.ts" -> "ts"
      [] path = "./a.ts" -> "ts"
      [] OTHER -> ""

\* SourceType::from_path(path).is_ok(): the extension is one oxc knows.
SourceTypeFromPathOk(path) ==
    Extension(path) \in {"js", "mjs", "cjs", "jsx", "ts", "mts", "cts", "tsx"}

\* The specifier nodes written on an import of `source` in the sampled programs.
SpecifiersOn(source) ==
    CASE source = "a.ts" -> <<DefaultSpecifier("A"), NamedSpecifier("b", "c")>>
      [] source = "b.ts" -> <<NamespaceSpecifier("ns")>>
      [] OTHER -> <<>>

\* The export nodes of the sampled program stored at `path`.
ExportsOf(path) ==
    CASE path = "a.ts" -> <<ExportDefault("A"), ExportNamed("b")>>
      [] path = "b.ts" -> <<ExportNamed("x")>>
      [] OTHER -> <<>>

\* The node sequence of a program that imports `sources`, in that order.
RECURSIVE ImportNodes(_)
ImportNodes(sources) ==
    IF sources = <<>> THEN <<>>
    ELSE <<ImportDeclaration(Head(sources))>> \o SpecifiersOn(Head(sources))
            \o ImportNodes(Tail(sources))

\* The parser diagnostics of the sampled program stored at `path`.
ErrorsOf(path) == IF path = "a.ts" THEN 2 ELSE 0

File(exists, readable, errors, nodes) ==
    [exists |-> exists, readable |-> readable, errors |-> errors, nodes |-> nodes]

MissingFile == File(FALSE, FALSE, 0, <<>>)
UnreadableFile == File(TRUE, FALSE, 0, <<>>)

\* The readable file at `path` whose program imports `sources`.
ProgramFile(path, sources) ==
    File(TRUE, TRUE, ErrorsOf(path), ImportNodes(sources) \o ExportsOf(path))

\* What may be stored at `path` when its import list is `sources`.
FilesAt(path, sources) ==
    {ProgramFile(path, sources)}
        \cup (IF sources = <<>> THEN {MissingFile} ELSE {})

\* The paths given as entries.
EntryPaths == {"test.ts", "a.ts"}

\* main's entry first, then further entries.
EntryLists ==
    {<<"test.ts">> \o more : more \in SeqsUpTo(EntryPaths, MaxEntries - 1)}

\* One call of traverse: its `files` argument, the index of the candidate the
\* for loop is at, and ast_pass while the recursive call at line 107 runs.
Frame(files) == [files |-> files, i |-> 1, ast_pass |-> None]

\* The deepest nesting the stack holds; beyond every acyclic chain over Paths.
StackLimit == Cardinality(Paths) + 2

Line(kind, text, doc) == [kind |-> kind, text |-> text, doc |-> doc]

JsonOption(o) == IF o = None THEN <<"null">> ELSE <<"string", o[1]>>

\* serde_json::to_string_pretty(&project)
to_string_pretty(p) ==
    [files |-> [k \in 1..Len(p.files) |->
        [path |-> p.files[k].path,
         imports |-> p.files[k].imports,
         exports |-> p.files[k].exports,
         default_export |-> JsonOption(p.files[k].default_export)]]]

\* The record kept of a finished run.
Outcome(p, how, why) == [project |-> p, pc |-> how, panic |-> why]
NoRun == Outcome(ProjectDefault, "", "")

IdleVisit ==
    /\ program = <<>>
    /\ pos = 0
    /\ ast_pass = ModuleFile("")
    /\ vpc = "idle"

Init ==
    /\ \E lt \in SeqsUpTo(Paths, MaxImports) :
       \E la \in SeqsUpTo(Paths, MaxImports - Len(lt)) :
       \E t \in FilesAt("test.ts", lt), a \in FilesAt("a.ts", la),
          b \in FilesAt("b.ts", <<>>),
          l \in FilesAt("lib", <<>>) \cup {UnreadableFile} :
            fs = ("test.ts" :> t) @@ ("a.ts" :> a) @@ ("b.ts" :> b) @@ ("lib" :> l)
    /\ entries \in EntryLists
    /\ project = ProjectDefault
    /\ stack = <<Frame(entries)>>
    /\ stdout = <<>>
    /\ pc = "traverse"
    /\ panic = ""
    /\ analysed = <<>>
    /\ run = 1
    /\ first = NoRun
    /\ IdleVisit

----------------------------------------------------------------------------
(* Project::traverse, lines 74-110 *)

Top == stack[Len(stack)]

\* The for loop of the innermost call is at a candidate.
AtCandidate ==
    /\ pc = "traverse"
    /\ stack # <<>>
    /\ Top.i <= Len(Top.files)

Candidate == Top.files[Top.i]

\* A dedup check that looks at the most recently pushed file only.
InProjectLastOnly(file) ==
    /\ project.files # <<>>
    /\ project.files[Len(project.files)].path = file

\* A dedup check that compares paths after dropping a leading "./".
InProjectNormalized(file) ==
    LET norm(p) == IF p = "./a.ts" THEN "a.ts" ELSE p
    IN  \E k \in 1..Len(project.files) : norm(project.files[k].path) = norm(file)

\* A dedup check that also counts the files in progress on the stack.
InProjectOrInProgress(file) ==
    \/ \E k \in 1..Len(project.files) : project.files[k].path = file
    \/ \E k \in 1..Len(stack) :
            stack[k].ast_pass # None /\ stack[k].ast_pass[1].path = file

\* self.files.iter().any(|f| f.path == file)
InProject(file) == \E k \in 1..Len(project.files) : project.files[k].path = file

\* `continue`: the for loop moves to the next candidate.
Continue == [stack EXCEPT ![Len(stack)].i = @ + 1]

Abort(why) ==
    /\ pc' = "panicked"
    /\ panic' = why
    /\ UNCHANGED <<fs, entries, project, stack, stdout, analysed, run, first>>
    /\ UNCHANGED visitVars

\* lines 76-78
SkipSeen ==
    /\ AtCandidate
    /\ InProject(Candidate)
    /\ stack' = Continue
    /\ UNCHANGED <<fs, entries, project, stdout, pc, panic, analysed, run, first>>
    /\ UNCHANGED visitVars

\* A missing file that is fatal instead of skipped.
SkipMissingAborts ==
    /\ AtCandidate
    /\ ~InProject(Candidate)
    /\ ~fs[Candidate].exists
    /\ Abort("IoFailure")

\* lines 81-84
SkipMissing ==
    /\ AtCandidate
    /\ ~InProject(Candidate)
    /\ ~fs[Candidate].exists
    /\ stdout' = Append(stdout, Line("file not found", Candidate, <<>>))
    /\ stack' = Continue
    /\ UNCHANGED <<fs, entries, project, pc, panic, analysed, run, first>>
    /\ UNCHANGED visitVars

\* An unreadable file that is skipped like a missing one.
ReadPanicSkips ==
    /\ AtCandidate
    /\ ~InProject(Candidate)
    /\ fs[Candidate].exists
    /\ ~fs[Candidate].readable
    /\ stack' = Continue
    /\ UNCHANGED <<fs, entries, project, stdout, pc, panic, analysed, run, first>>
    /\ UNCHANGED visitVars

\* line 85: read_to_string(path).unwrap()
ReadPanic ==
    /\ AtCandidate
    /\ ~InProject(Candidate)
    /\ fs[Candidate].exists
    /\ ~fs[Candidate].readable
    /\ Abort("IoFailure")

\* A dialect check made before the file is looked for and read.
DialectPanicFirst ==
    /\ AtCandidate
    /\ ~InProject(Candidate)
    /\ ~SourceTypeFromPathOk(Candidate)
    /\ Abort("UnsupportedDialect")

\* line 87: SourceType::from_path(path).unwrap()
DialectPanic ==
    /\ AtCandidate
    /\ ~InProject(Candidate)
    /\ fs[Candidate].exists
    /\ fs[Candidate].readable
    /\ ~SourceTypeFromPathOk(Candidate)
    /\ Abort("UnsupportedDialect")

Parseable(file) ==
    /\ ~InProject(file)
    /\ fs[file].exists
    /\ fs[file].readable
    /\ SourceTypeFromPathOk(file)

\* lines 90-93: one line per parser diagnostic
Diagnostics(file) ==
    [k \in 1..fs[file].errors |-> Line("diagnostic", file, <<>>)]

\* An import list that loses its first source.
ImportSourcesButFirst(mf) ==
    [k \in 1..(Len(mf.imports) - 1) |-> mf.imports[k + 1].source]

\* An import list that also names the file itself.
ImportSourcesAndSelf(mf) ==
    [k \in 1..(Len(mf.imports) + 1) |->
        IF k <= Len(mf.imports) THEN mf.imports[k].source ELSE mf.path]

\* lines 102-106
ImportSources(mf) == [k \in 1..Len(mf.imports) |-> mf.imports[k].source]

Reverse(q) == [k \in 1..Len(q) |-> q[Len(q) + 1 - k]]

\* An analysis that hands the import sources to traverse in an order that is
\* not fixed (as iterating a hash set of them would).
AnalyseAnyOrder ==
    /\ AtCandidate
    /\ Parseable(Candidate)
    /\ Len(stack) < StackLimit
    /\ LET r == visit_program(ModuleFile(Candidate), fs[Candidate].nodes)
       IN  /\ stdout' = stdout \o Diagnostics(Candidate)
           /\ analysed' = Append(analysed, Candidate)
           /\ \E order \in {ImportSources(r.self), Reverse(ImportSources(r.self))} :
                stack' = Append([stack EXCEPT ![Len(stack)].ast_pass = Some(r.self)],
                                Frame(order))
           /\ UNCHANGED <<pc, panic>>
    /\ UNCHANGED <<fs, entries, project, run, first>>
    /\ UNCHANGED visitVars

\* An analysis that gives up on a file whose parse reported a diagnostic.
AnalyseDiagnosticsFatal ==
    /\ AtCandidate
    /\ Parseable(Candidate)
    /\ Len(stack) < StackLimit
    /\ LET r == visit_program(ModuleFile(Candidate), fs[Candidate].nodes)
       IN  /\ stdout' = stdout \o Diagnostics(Candidate)
           /\ analysed' = Append(analysed, Candidate)
           /\ IF r.ok /\ fs[Candidate].errors = 0
              THEN /\ stack' = Append([stack EXCEPT ![Len(stack)].ast_pass = Some(r.self)],
                                      Frame(ImportSources(r.self)))
                   /\ UNCHANGED <<pc, panic>>
              ELSE /\ pc' = "panicked"
                   /\ panic' = "ParseFailure"
                   /\ UNCHANGED stack
    /\ UNCHANGED <<fs, entries, project, run, first>>
    /\ UNCHANGED visitVars

\* lines 85-107: read, parse, report, visit, and call traverse on the imports.
Analyse ==
    /\ AtCandidate
    /\ Parseable(Candidate)
    /\ Len(stack) < StackLimit
    /\ LET r == visit_program(ModuleFile(Candidate), fs[Candidate].nodes)
       IN  /\ stdout' = stdout \o Diagnostics(Candidate)
           /\ analysed' = Append(analysed, Candidate)
           /\ IF r.ok
              THEN /\ stack' = Append([stack EXCEPT ![Len(stack)].ast_pass = Some(r.self)],
                                      Frame(ImportSources(r.self)))
                   /\ UNCHANGED <<pc, panic>>
              ELSE /\ pc' = "panicked"
                   /\ panic' = "unwrap on None"
                   /\ UNCHANGED stack
    /\ UNCHANGED <<fs, entries, project, run, first>>
    /\ UNCHANGED visitVars

\* line 107 with no stack left for one more call
StackOverflow ==
    /\ AtCandidate
    /\ Parseable(Candidate)
    /\ Len(stack) >= StackLimit
    /\ Abort("stack overflow")

\* A return that inserts ast_pass at the front of Project.files.
ReturnInsertFront ==
    /\ pc = "traverse"
    /\ Len(stack) > 1
    /\ Top.i > Len(Top.files)
    /\ LET caller == stack[Len(stack) - 1]
       IN  /\ project' = [project EXCEPT !.files = <<caller.ast_pass[1]>> \o @]
           /\ stack' = [k \in 1..(Len(stack) - 1) |->
                          IF k = Len(stack) - 1
                          THEN [caller EXCEPT !.i = @ + 1, !.ast_pass = None]
                          ELSE stack[k]]
    /\ UNCHANGED <<fs, entries, stdout, pc, panic, analysed, run, first>>
    /\ UNCHANGED visitVars

\* lines 107-108: the recursive call returns and the caller pushes ast_pass.
Return ==
    /\ pc = "traverse"
    /\ Len(stack) > 1
    /\ Top.i > Len(Top.files)
    /\ LET caller == stack[Len(stack) - 1]
       IN  /\ project' = [project EXCEPT !.files = Append(@, caller.ast_pass[1])]
           /\ stack' = [k \in 1..(Len(stack) - 1) |->
                          IF k = Len(stack) - 1
                          THEN [caller EXCEPT !.i = @ + 1, !.ast_pass = None]
                          ELSE stack[k]]
    /\ UNCHANGED <<fs, entries, stdout, pc, panic, analysed, run, first>>
    /\ UNCHANGED visitVars

\* line 117: the top-level traverse returns to main.
ReturnToMain ==
    /\ pc = "traverse"
    /\ Len(stack) = 1
    /\ Top.i > Len(Top.files)
    /\ stack' = <<>>
    /\ pc' = "returned"
    /\ UNCHANGED <<fs, entries, project, stdout, panic, analysed, run, first>>
    /\ UNCHANGED visitVars

\* line 119
Serialize ==
    /\ pc = "returned"
    /\ stdout' = Append(stdout, Line("json", "", to_string_pretty(project).files))
    /\ pc' = "done"
    /\ UNCHANGED <<fs, entries, project, stack, panic, analysed, run, first>>
    /\ UNCHANGED visitVars

Next ==
    \/ SkipSeen
    \/ SkipMissing
    \/ ReadPanic
    \/ DialectPanic
    \/ Analyse
    \/ StackOverflow
    \/ Return
    \/ ReturnToMain
    \/ Serialize

Spec == Init /\ [][Next]_vars

----------------------------------------------------------------------------
(* Two runs of main over the same file set, one after the other *)

Ended == pc \in {"done", "panicked"}

\* lines 113-117 again: a new process starts from Project::default().
Rerun ==
    /\ run = 1
    /\ Ended
    /\ first' = Outcome(project, pc, panic)
    /\ run' = 2
    /\ project' = ProjectDefault
    /\ stack' = <<Frame(entries)>>
    /\ stdout' = <<>>
    /\ pc' = "traverse"
    /\ panic' = ""
    /\ analysed' = <<>>
    /\ UNCHANGED <<fs, entries>>
    /\ UNCHANGED visitVars

NextTwice ==
    \/ Next
    \/ Rerun

SpecTwice == Init /\ [][NextTwice]_vars

----------------------------------------------------------------------------
(* A file set in which two path strings name the same file *)

\* "./a.ts" is another spelling of the path of the file at "a.ts".
AliasPaths == Paths \cup {"./a.ts"}

\* The sources written in the import declarations of these file sets.
AliasSources == {"a.ts", "./a.ts", "b.ts", "lib"}

InitAlias ==
    /\ \E lt \in SeqsUpTo(AliasSources, MaxImports) :
       \E la \in SeqsUpTo(AliasSources, MaxImports - Len(lt)) :
       \E t \in FilesAt("test.ts", lt), a \in FilesAt("a.ts", la),
          b \in FilesAt("b.ts", <<>>),
          l \in FilesAt("lib", <<>>) \cup {UnreadableFile} :
            fs = ("test.ts" :> t) @@ ("a.ts" :> a) @@ ("./a.ts" :> a)
                    @@ ("b.ts" :> b) @@ ("lib" :> l)
    /\ entries \in EntryLists
    /\ project = ProjectDefault
    /\ stack = <<Frame(entries)>>
    /\ stdout = <<>>
    /\ pc = "traverse"
    /\ panic = ""
    /\ analysed = <<>>
    /\ run = 1
    /\ first = NoRun
    /\ IdleVisit

SpecAlias == InitAlias /\ [][Next]_vars

----------------------------------------------------------------------------
(* The visitor alone, over any node sequence *)

NodeSamples ==
    {ImportDeclaration("m"), ImportDeclaration("n"),
     NamedSpecifier("b", "c"), NamedSpecifier("d", "d"),
     DefaultSpecifier("A"), NamespaceSpecifier("ns"),
     ExportNamed("x"), ExportDefault("y")}

\* import A, { b as c, d } from "m"; import * as ns from "n";
ExampleProgram ==
    <<ImportDeclaration("m"), DefaultSpecifier("A"), NamedSpecifier("b", "c"),
      NamedSpecifier("d", "d"), ImportDeclaration("n"), NamespaceSpecifier("ns")>>

Programs == SeqsUpTo(NodeSamples, MaxNodes) \cup {ExampleProgram}

InitVisit ==
    /\ fs = [p \in Paths |-> MissingFile]
    /\ entries = <<>>
    /\ project = ProjectDefault
    /\ stack = <<>>
    /\ stdout = <<>>
    /\ pc = "idle"
    /\ panic = ""
    /\ analysed = <<>>
    /\ run = 1
    /\ first = NoRun
    /\ program \in Programs
    /\ pos = 0
    /\ ast_pass = ModuleFile("test.ts")
    /\ vpc = "visit"

\* One call of enter_node by visit_program (line 101).
EnterNode ==
    /\ vpc = "visit"
    /\ pos < Len(program)
    /\ LET r == enter_node(ast_pass, program[pos + 1])
       IN  IF r.ok
           THEN /\ ast_pass' = r.self
                /\ pos' = pos + 1
                /\ UNCHANGED vpc
           ELSE /\ vpc' = "panicked"
                /\ UNCHANGED <<ast_pass, pos>>
    /\ UNCHANGED program
    /\ UNCHANGED travVars

\* visit_program returns.
VisitReturn ==
    /\ vpc = "visit"
    /\ pos = Len(program)
    /\ vpc' = "visited"
    /\ UNCHANGED <<program, pos, ast_pass>>
    /\ UNCHANGED travVars

NextVisit ==
    \/ EnterNode
    \/ VisitReturn

SpecVisit == InitVisit /\ [][NextVisit]_vars

----------------------------------------------------------------------------
(* The import graph of the file set, read off the files themselves *)

\* The sources of the import declarations among `nodes`, in document order.
DeclaredSources(nodes) ==
    LET decls == SelectSeq(nodes, LAMBDA n : n.kind = "ImportDeclaration")
    IN  [k \in 1..Len(decls) |-> decls[k].source]

\* The existing files that the existing file at `p` imports.
ExistingImports(p) ==
    IF fs[p].exists
    THEN {q \in {n.source : n \in {m \in Range(fs[p].nodes) :
                                        m.kind = "ImportDeclaration"}} :
            fs[q].exists}
    ELSE {}

RECURSIVE Closure(_, _)
Closure(S, n) ==
    IF n = 0 THEN S
    ELSE LET T == S \cup UNION {ExistingImports(p) : p \in S}
         IN  IF T = S THEN S ELSE Closure(T, n - 1)

\* The existing paths reachable from the entries through existing files.
Reachable ==
    Closure({e \in Range(entries) : fs[e].exists}, Cardinality(Paths))

\* Some reachable file imports itself, directly or through other files.
Cyclic ==
    \E p \in Reachable : p \in Closure(ExistingImports(p), Cardinality(Paths))

Acyclic == ~Cyclic

\* Every reachable file can be read and parsed.
AllParse ==
    \A p \in Reachable : fs[p].readable /\ SourceTypeFromPathOk(p)

PathsOf(files) == [k \in 1..Len(files) |-> files[k].path]

Notices == SelectSeq(stdout, LAMBDA l : l.kind = "file not found")

TraverseReturned == pc \in {"returned", "done"}

----------------------------------------------------------------------------
(* Claims *)

\* C1: in every reachable state, no two FileFacts of Project.files have the
\* same path, whatever the entries and the import graph (cycles included).
C1_PathsDistinct ==
    \A i, j \in 1..Len(project.files) :
        i # j => project.files[i].path # project.files[j].path

\* C1 witness: a finished run with a duplicate entry and a file that names one
\* source twice, with several files in the Project.
C1_Witness ==
    /\ pc = "done"
    /\ entries = <<"test.ts", "test.ts">>
    /\ DeclaredSources(fs["test.ts"].nodes) = <<"a.ts", "b.ts", "a.ts">>
    /\ Len(project.files) = 3

\* C2: for an acyclic graph whose reachable files all parse, when traverse has
\* returned the paths of Project.files are exactly the reachable existing
\* paths, one FileFact each; an entry E importing only F, which imports
\* nothing, gives the two FileFacts F, E in that order.
C2_ExactlyReachable ==
    (TraverseReturned /\ Acyclic /\ AllParse) =>
        /\ Range(PathsOf(project.files)) = Reachable
        /\ Len(project.files) = Cardinality(Reachable)
        /\ \A E, F \in Paths :
            (/\ entries = <<E>>
             /\ E # F
             /\ fs[E].exists
             /\ fs[F].exists
             /\ DeclaredSources(fs[E].nodes) = <<F>>
             /\ DeclaredSources(fs[F].nodes) = <<>>)
                => PathsOf(project.files) = <<F, E>>

\* C2 witness: test.ts imports a.ts, which imports nothing.
C2_Witness ==
    /\ pc = "done"
    /\ entries = <<"test.ts">>
    /\ Acyclic
    /\ AllParse
    /\ DeclaredSources(fs["test.ts"].nodes) = <<"a.ts">>
    /\ DeclaredSources(fs["a.ts"].nodes) = <<>>
    /\ PathsOf(project.files) = <<"a.ts", "test.ts">>

\* C3: for an acyclic graph, every import source of a FileFact in
\* Project.files that names an existing file has its own FileFact at an
\* earlier index.
C3_PostOrder ==
    Acyclic =>
        \A k \in 1..Len(project.files) :
            \A s \in Range(ImportSources(project.files[k])) :
                fs[s].exists =>
                    \E j \in 1..(k - 1) : project.files[j].path = s

\* C3 witness: the chain test.ts -> a.ts -> b.ts, appended leaf first.
C3_Witness ==
    /\ Acyclic
    /\ PathsOf(project.files) = <<"b.ts", "a.ts", "test.ts">>
    /\ ImportSources(project.files[2]) = <<"b.ts">>
    /\ ImportSources(project.files[3]) = <<"a.ts">>

\* The innermost loop is at a candidate that is not in Project and does not
\* exist.
AtMissing ==
    /\ AtCandidate
    /\ ~InProject(Candidate)
    /\ ~fs[Candidate].exists

\* C4: a candidate that does not exist is skipped without aborting: the step
\* records one notice, leaves Project alone and moves the same loop to its
\* next candidate; no FileFact ever has a missing path; and an entry E that
\* imports only a missing file ends with one FileFact (E's) and one notice.
C4_MissingSkipped ==
    /\ [][AtMissing =>
            /\ stdout' = Append(stdout, Line("file not found", Candidate, <<>>))
            /\ project' = project
            /\ pc' = "traverse"
            /\ stack' = Continue]_vars
    /\ [](\A k \in 1..Len(project.files) : fs[project.files[k].path].exists)
    /\ [](\A E, M \in Paths :
            (/\ pc = "done"
             /\ entries = <<E>>
             /\ fs[E].exists /\ fs[E].readable /\ SourceTypeFromPathOk(E)
             /\ DeclaredSources(fs[E].nodes) = <<M>>
             /\ ~fs[M].exists)
                => /\ PathsOf(project.files) = <<E>>
                   /\ Len(Notices) = 1
                   /\ Notices[1].text = M)

\* C4 witness: test.ts imports only b.ts, which does not exist; the run is done
\* with test.ts alone in the Project and the notice for b.ts on record.
C4_Witness ==
    /\ pc = "done"
    /\ entries = <<"test.ts">>
    /\ DeclaredSources(fs["test.ts"].nodes) = <<"b.ts">>
    /\ ~fs["b.ts"].exists
    /\ PathsOf(project.files) = <<"test.ts">>
    /\ Notices = <<Line("file not found", "b.ts", <<>>)>>

\* C5: a run fails only by one of the two hard aborts.
C5_OnlyHardAbortsFail ==
    pc = "panicked" => panic \in {"IoFailure", "UnsupportedDialect"}

\* The innermost loop is at a candidate that exists but cannot be read or has
\* no dialect.
AtUnusable ==
    /\ AtCandidate
    /\ ~InProject(Candidate)
    /\ fs[Candidate].exists
    /\ ~fs[Candidate].readable \/ ~SourceTypeFromPathOk(Candidate)

JsonLines == SelectSeq(stdout, LAMBDA l : l.kind = "json")

\* C6: a candidate that exists but cannot be read, or whose dialect cannot be
\* determined, aborts the run in that very step, with Project and the output
\* as they were; after an abort nothing changes any more, and an aborted run
\* has emitted no document.
C6_HardAbort ==
    /\ [][AtUnusable =>
            /\ pc' = "panicked"
            /\ panic' \in {"IoFailure", "UnsupportedDialect"}
            /\ project' = project
            /\ stdout' = stdout]_vars
    /\ [][pc # "panicked"]_vars
    /\ [](pc = "panicked" => JsonLines = <<>>)

\* C6 witness: the read of lib fails while test.ts is in progress on the stack
\* and b.ts is already in the Project.
C6_Witness ==
    /\ pc = "panicked"
    /\ panic = "IoFailure"
    /\ Len(stack) = 2
    /\ stack[1].ast_pass # None
    /\ PathsOf(project.files) = <<"b.ts">>
    /\ JsonLines = <<>>

\* C7: the stream that carries the serialized Project carries nothing else.
C7_OutputOnlyProject ==
    pc = "done" =>
        stdout = <<Line("json", "", to_string_pretty(project).files)>>

\* C8: a second run over the same file set with the same entries ends as the
\* first did, with a Project equal to the first one field for field.
C8_Deterministic ==
    (run = 2 /\ Ended) => Outcome(project, pc, panic) = first

\* C8 witness: both runs are done and produced the same three FileFacts.
C8_Witness ==
    /\ run = 2
    /\ pc = "done"
    /\ Len(project.files) = 3
    /\ first.project = project
    /\ \E k \in 1..3 : Len(project.files[k].imports) = 2

----------------------------------------------------------------------------
(* What the visitor should record, read off the node sequence *)

\* Every specifier node has an import declaration before it.
WellFormed(prog) ==
    \A q \in 1..Len(prog) :
        prog[q].kind \in SpecifierKinds =>
            \E d \in 1..(q - 1) : prog[d].kind = "ImportDeclaration"

ExpectedSpecifier(node) ==
    CASE node.kind = "ImportSpecifier" -> ImportSpecifier(node.imported, node.local)
      [] node.kind = "ImportDefaultSpecifier" -> ImportSpecifier("default", node.local)
      [] node.kind = "ImportNamespaceSpecifier" -> ImportSpecifier("*", node.local)

\* The specifiers from position q up to the next import declaration.
RECURSIVE SpecifiersFrom(_, _)
SpecifiersFrom(prog, q) ==
    IF q > Len(prog) \/ prog[q].kind = "ImportDeclaration" THEN <<>>
    ELSE (IF prog[q].kind \in SpecifierKinds
          THEN <<ExpectedSpecifier(prog[q])>> ELSE <<>>)
            \o SpecifiersFrom(prog, q + 1)

DeclPositions(prog) ==
    {d \in 1..Len(prog) : prog[d].kind = "ImportDeclaration"}

\* One record per import declaration, each with the specifiers it owns.
ExpectedImports(prog) ==
    LET D == DeclPositions(prog)
        nth(k) == CHOOSE d \in D : Cardinality({e \in D : e <= d}) = k
    IN  [k \in 1..Cardinality(D) |->
            ImportItem(prog[nth(k)].source, SpecifiersFrom(prog, nth(k) + 1))]

\* C9: when every specifier follows an import declaration, the visitor never
\* panics and, after each node, the imports recorded are one record per
\* declaration entered so far, each holding exactly the specifiers between it
\* and the next declaration, in source order, as (imported, local),
\* ("default", local) or ("*", local); the example program gives
\* m: [(default,A),(b,c),(d,d)] and n: [(*,ns)].
C9_SpecifiersAttached ==
    WellFormed(program) =>
        /\ vpc # "panicked"
        /\ ast_pass.imports = ExpectedImports(SubSeq(program, 1, pos))
        /\ (vpc = "visited" /\ program = ExampleProgram) =>
              ast_pass.imports =
                <<ImportItem("m", <<ImportSpecifier("default", "A"),
                                    ImportSpecifier("b", "c"),
                                    ImportSpecifier("d", "d")>>),
                  ImportItem("n", <<ImportSpecifier("*", "ns")>>)>>

\* C9 witness: the example program has been visited to its end.
C9_Witness ==
    /\ vpc = "visited"
    /\ program = ExampleProgram
    /\ Len(ast_pass.imports) = 2
    /\ Len(ast_pass.imports[1].specifiers) = 3
    /\ ast_pass.imports[2].specifiers = <<ImportSpecifier("*", "ns")>>

ExportedNames(prog) ==
    LET named == SelectSeq(prog, LAMBDA n : n.kind = "ExportNamedDeclaration")
    IN  [k \in 1..Len(named) |-> named[k].local]

LastDefaultExport(prog) ==
    LET defaults == SelectSeq(prog, LAMBDA n : n.kind = "ExportDefaultDeclaration")
    IN  IF defaults = <<>> THEN None ELSE Some(defaults[Len(defaults)].local)

\* C10: the ModuleFile of a visited file holds the names of its named exports
\* in document order and the name of its last default export.
C10_ExportsRecorded ==
    vpc = "visited" =>
        /\ ast_pass.exports = ExportedNames(program)
        /\ ast_pass.default_export = LastDefaultExport(program)

\* The visitor is about to enter an import declaration.
AtDeclaration ==
    /\ vpc = "visit"
    /\ pos < Len(program)
    /\ program[pos + 1].kind = "ImportDeclaration"

\* The nodes the visitor has entered.
Entered == SubSeq(program, 1, pos)

\* C11: entering an import declaration appends one ImportRecord with the
\* declaration's source and an empty specifier list; so the records are the
\* declarations entered, in document order, a file without import
\* declarations ends with no record and hands no source to traverse, and a
\* declaration followed by no specifier keeps an empty specifier list.
C11_OneRecordPerDeclaration ==
    /\ [][AtDeclaration =>
            ast_pass'.imports =
                Append(ast_pass.imports, ImportItem(program[pos + 1].source, <<>>))]_vars
    /\ [](ImportSources(ast_pass) = DeclaredSources(Entered))
    /\ []((vpc = "visited" /\ DeclPositions(program) = {}) =>
            /\ ast_pass.imports = <<>>
            /\ ImportSources(ast_pass) = <<>>)
    /\ [](\A k \in 1..Len(ast_pass.imports) :
            \A d \in DeclPositions(Entered) :
                (/\ Cardinality({e \in DeclPositions(Entered) : e <= d}) = k
                 /\ SpecifiersFrom(Entered, d + 1) = <<>>)
                    => ast_pass.imports[k].specifiers = <<>>)

\* C11 witness: a visited program of two side-effect-only imports of the same
\* source has two records with empty specifier lists.
C11_Witness ==
    /\ vpc = "visited"
    /\ program = <<ImportDeclaration("m"), ImportDeclaration("m")>>
    /\ ast_pass.imports = <<ImportItem("m", <<>>), ImportItem("m", <<>>)>>

\* The existing file at p imports itself, directly or through other files.
OnCycle(p) ==
    fs[p].exists /\ p \in Closure(ExistingImports(p), Cardinality(Paths))

Occurrences(q, x) == Cardinality({k \in 1..Len(q) : q[k] = x})

\* C12: when the files reachable from the entries contain an import cycle,
\* traverse never returns and no file on a cycle ever gets a FileFact; when
\* every reachable file parses, the run dies only of the stack running out,
\* at its full depth, with a file on the cycle analysed more than once.
C12_CycleNeverReturns ==
    Cyclic =>
        /\ ~TraverseReturned
        /\ \A k \in 1..Len(project.files) : ~OnCycle(project.files[k].path)
        /\ (AllParse /\ pc = "panicked") =>
              /\ panic = "stack overflow"
              /\ Len(stack) = StackLimit
              /\ \E p \in Paths : OnCycle(p) /\ Occurrences(analysed, p) >= 2

\* C12 witness: test.ts and a.ts import each other; the stack has run out with
\* both analysed again and again and nothing in the Project.
C12_Witness ==
    /\ DeclaredSources(fs["test.ts"].nodes) = <<"a.ts">>
    /\ DeclaredSources(fs["a.ts"].nodes) = <<"test.ts">>
    /\ pc = "panicked"
    /\ panic = "stack overflow"
    /\ Occurrences(analysed, "test.ts") >= 2
    /\ Occurrences(analysed, "a.ts") >= 2
    /\ project.files = <<>>

\* C13: during one run no path is read and analysed more than once.
C13_AnalysedOnce ==
    \A p \in Range(analysed) : Occurrences(analysed, p) = 1

\* A step appends exactly one FileFact at the end of Project.files.
AppendsOne ==
    /\ Len(project'.files) = Len(project.files) + 1
    /\ SubSeq(project'.files, 1, Len(project.files)) = project.files

\* C14: Project.files starts empty; every step leaves it unchanged or appends
\* one FileFact at its end; once the top-level traverse has returned the
\* Project does not change; and the document is written only then, from a
\* returned traverse, and holds the Project as it is.
C14_GrowsMonotonically ==
    /\ project.files = <<>>
    /\ [][project' = project \/ AppendsOne]_vars
    /\ [][TraverseReturned => project' = project]_vars
    /\ [][JsonLines' # JsonLines => (pc = "returned" /\ stack = <<>>)]_vars
    /\ [](JsonLines # <<>> =>
            /\ pc = "done"
            /\ JsonLines = <<Line("json", "", to_string_pretty(project).files)>>)

\* C14 witness: the run is done, three FileFacts were appended one by one and
\* the document holds the three of them.
C14_Witness ==
    /\ pc = "done"
    /\ Len(project.files) = 3
    /\ Len(JsonLines) = 1
    /\ Len(JsonLines[1].doc) = 3

Max(S) == CHOOSE x \in S : \A y \in S : y <= x

\* The number of files on the longest import chain of existing files that
\* starts at the existing file p, followed for at most n files.
RECURSIVE ChainLen(_, _)
ChainLen(p, n) ==
    IF n = 0 THEN 0
    ELSE 1 + Max({ChainLen(q, n - 1) : q \in ExistingImports(p)} \cup {0})

LongestChain ==
    Max({ChainLen(e, Cardinality(Paths)) : e \in {x \in Range(entries) : fs[x].exists}}
            \cup {0})

\* The files whose analysis is in progress, outermost first: every call below
\* the innermost one is waiting at line 107 with its ast_pass.
InProgress == [k \in 1..(Len(stack) - 1) |-> stack[k].ast_pass[1].path]

\* C15: for an acyclic graph the number of nested traverse calls never exceeds
\* one more than the number of files on the longest import chain of existing
\* files from an entry, and the files in progress form such a chain: the first
\* is an entry, each next one is imported by the one before, none occurs twice.
C15_DepthBounded ==
    Acyclic =>
        /\ Len(stack) <= 1 + LongestChain
        /\ \A k \in 1..(Len(stack) - 1) : stack[k].ast_pass # None
        /\ \A i, j \in 1..Len(InProgress) : i # j => InProgress[i] # InProgress[j]
        /\ InProgress # <<>> => InProgress[1] \in Range(entries)
        /\ \A k \in 1..(Len(InProgress) - 1) :
              InProgress[k + 1] \in ExistingImports(InProgress[k])

\* C15 witness: on the chain test.ts -> a.ts -> b.ts the three files are in
\* progress at once, in four nested calls.
C15_Witness ==
    /\ Acyclic
    /\ LongestChain = 3
    /\ Len(stack) = 4
    /\ InProgress = <<"test.ts", "a.ts", "b.ts">>

\* C16: the candidate string is used as it is written: the ModuleFile of a
\* call in progress has the candidate string as its path and the call made for
\* it gets the file's import source strings unchanged; a returned traverse has
\* one FileFact per existing string reached, so when "a.ts" and "./a.ts", two
\* spellings of one file, are both reached, each is analysed once and each has
\* its own FileFact, equal but for the path.
C16_VerbatimPaths ==
    /\ \A k \in 1..(Len(stack) - 1) :
          /\ stack[k].ast_pass # None
          /\ stack[k].ast_pass[1].path = stack[k].files[stack[k].i]
          /\ stack[k + 1].files =
                DeclaredSources(fs[stack[k].files[stack[k].i]].nodes)
    /\ \A k \in 1..Len(project.files) : project.files[k].path \in Range(analysed)
    /\ TraverseReturned =>
          /\ Range(PathsOf(project.files)) = Reachable
          /\ {"a.ts", "./a.ts"} \subseteq Reachable =>
                /\ Occurrences(analysed, "a.ts") = 1
                /\ Occurrences(analysed, "./a.ts") = 1
                /\ \E i, j \in 1..Len(project.files) :
                      /\ project.files[i].path = "a.ts"
                      /\ project.files[j].path = "./a.ts"
                      /\ project.files[i] =
                            [project.files[j] EXCEPT !.path = "a.ts"]

\* C16 witness: test.ts imports "a.ts" and "./a.ts"; the run is done with a
\* FileFact for each of the two strings.
C16_Witness ==
    /\ pc = "done"
    /\ fs["a.ts"] = fs["./a.ts"]
    /\ DeclaredSources(fs["test.ts"].nodes) = <<"a.ts", "./a.ts">>
    /\ PathsOf(project.files) = <<"a.ts", "./a.ts", "test.ts">>

\* The innermost loop is at a candidate that reads and parses with diagnostics,
\* and the stack has room for the call at line 107.
AtDiagnosed ==
    /\ AtCandidate
    /\ Parseable(Candidate)
    /\ fs[Candidate].errors > 0
    /\ Len(stack) < StackLimit

DiagnosticLines(p) ==
    SelectSeq(stdout, LAMBDA l : l.kind = "diagnostic" /\ l.text = p)

\* C17: a file whose parse reports diagnostics has one line written per
\* diagnostic and the run goes on: in the same step its tree is visited, the
\* call for its import sources is made and Project is left alone; the imports
\* of every FileFact are those of its file's tree whether or not the parse
\* reported diagnostics; and a returned traverse has the FileFact of every
\* reachable file with diagnostics.
C17_DiagnosticsNonFatal ==
    /\ [][AtDiagnosed =>
            /\ stdout' = stdout \o [k \in 1..fs[Candidate].errors |->
                                       Line("diagnostic", Candidate, <<>>)]
            /\ pc' = "traverse"
            /\ project' = project
            /\ Len(stack') = Len(stack) + 1
            /\ stack'[Len(stack)].ast_pass # None
            /\ stack'[Len(stack)].ast_pass[1].path = Candidate
            /\ stack'[Len(stack)].ast_pass[1].imports =
                  ExpectedImports(fs[Candidate].nodes)
            /\ stack'[Len(stack')] = Frame(DeclaredSources(fs[Candidate].nodes))]_vars
    /\ [](\A k \in 1..Len(project.files) :
            project.files[k].imports =
                ExpectedImports(fs[project.files[k].path].nodes))
    /\ [](TraverseReturned =>
            \A p \in Reachable :
                fs[p].errors > 0 =>
                    /\ p \in Range(PathsOf(project.files))
                    /\ Len(DiagnosticLines(p)) = fs[p].errors)

\* C17 witness: a.ts parses with two diagnostics and imports b.ts; the run is
\* done with both lines written, b.ts followed and a.ts in the Project.
C17_Witness ==
    /\ pc = "done"
    /\ fs["a.ts"].errors = 2
    /\ Len(DiagnosticLines("a.ts")) = 2
    /\ PathsOf(project.files) = <<"b.ts", "a.ts", "test.ts">>
    /\ ImportSources(project.files[2]) = <<"b.ts">>

\* The visitor is about to enter a specifier while the file has no
\* ImportRecord.
AtOrphanSpecifier ==
    /\ vpc = "visit"
    /\ pos < Len(program)
    /\ program[pos + 1].kind \in SpecifierKinds
    /\ ast_pass.imports = <<>>

RECURSIVE SpecifierCount(_)
SpecifierCount(imports) ==
    IF imports = <<>> THEN 0
    ELSE Len(Head(imports).specifiers) + SpecifierCount(Tail(imports))

\* C18: a file's scan starts with an empty import list; a specifier entered
\* while the list is still empty panics in that step and leaves the ModuleFile
\* as it was; after the panic nothing happens any more; and no specifier is
\* dropped: the specifiers recorded are as many as the specifier nodes entered,
\* so a scan that reaches its end met no specifier without a declaration.
C18_OrphanSpecifierAborts ==
    /\ ast_pass.imports = <<>>
    /\ [][AtOrphanSpecifier =>
            /\ vpc' = "panicked"
            /\ ast_pass' = ast_pass
            /\ pos' = pos]_vars
    /\ [][vpc # "panicked"]_vars
    /\ [](SpecifierCount(ast_pass.imports) =
            Len(SelectSeq(Entered, LAMBDA n : n.kind \in SpecifierKinds)))
    /\ [](vpc = "visited" => WellFormed(program))

\* C18 witness: the program starts with a default specifier; the visitor has
\* panicked at it with nothing entered and nothing recorded.
C18_Witness ==
    /\ vpc = "panicked"
    /\ program[1] = DefaultSpecifier("A")
    /\ pos = 0
    /\ ast_pass = ModuleFile("test.ts")

\* The innermost loop is at a candidate that is not in Project.
AtNew == AtCandidate /\ ~InProject(Candidate)

\* C19: the checks on a candidate run in the order in-Project, existence,
\* read, dialect: a candidate in Project is skipped with nothing written; a
\* new candidate that does not exist is skipped with a notice whatever its
\* name; one that exists but cannot be read dies of IoFailure whatever its
\* name; only one that exists and reads dies of UnsupportedDialect; so every
\* such abort is at a path that exists and every notice names a path that
\* does not.
C19_CheckOrder ==
    /\ [][(AtCandidate /\ InProject(Candidate)) =>
            /\ stdout' = stdout
            /\ project' = project
            /\ pc' = "traverse"
            /\ stack' = Continue]_vars
    /\ [][(AtNew /\ ~fs[Candidate].exists) =>
            /\ stdout' = Append(stdout, Line("file not found", Candidate, <<>>))
            /\ pc' = "traverse"
            /\ stack' = Continue]_vars
    /\ [][(AtNew /\ fs[Candidate].exists /\ ~fs[Candidate].readable) =>
            (pc' = "panicked" /\ panic' = "IoFailure")]_vars
    /\ [][(AtNew /\ fs[Candidate].exists /\ fs[Candidate].readable
                 /\ ~SourceTypeFromPathOk(Candidate)) =>
            (pc' = "panicked" /\ panic' = "UnsupportedDialect")]_vars
    /\ [](panic \in {"IoFailure", "UnsupportedDialect"} => fs[Candidate].exists)
    /\ [](panic = "UnsupportedDialect" => fs[Candidate].readable)
    /\ [](\A k \in 1..Len(Notices) : ~fs[Notices[k].text].exists)

\* C19 witness: test.ts imports "lib", a name without an extension that does
\* not exist; the run is done with the notice for lib and no abort.
C19_Witness ==
    /\ pc = "done"
    /\ ~SourceTypeFromPathOk("lib")
    /\ ~fs["lib"].exists
    /\ DeclaredSources(fs["test.ts"].nodes) = <<"lib">>
    /\ Notices = <<Line("file not found", "lib", <<>>)>>
    /\ PathsOf(project.files) = <<"test.ts">>

====
